---- MODULE Spec2Model ----
(***************************************************************************)
(* A model of the project board of src/src/app.ts: the validation          *)
(* function, the observable ProjectState store, the two ProjectList drop   *)
(* targets with their rendered ProjectItems, and the ProjectInput form.    *)
(*                                                                         *)
(* Text the code measures or trims (the form fields) is a sequence of      *)
(* one-character strings; text the code only compares (ids, MIME types,    *)
(* the alert) is a TLA+ string.  Objects live on a heap: a Project is      *)
(* referred to by its index in heap, an array is a sequence of such        *)
(* references, so that the sharing of elements between an array and its    *)
(* slice() is visible.                                                     *)
(***************************************************************************)
EXTENDS Integers, Sequences, FiniteSets

(***************************************************************************)
(* Bounds of the model.                                                    *)
(***************************************************************************)
\* The form stops accepting submissions once the store holds this many projects.
MaxProjects == 2

\* Callbacks registered with addListener besides the two lists' own.
MaxExtraListeners == 2

(***************************************************************************)
(* JavaScript strings and numbers.                                         *)
(***************************************************************************)
WhiteSpace == {" "}

DigitChars == <<"0", "1", "2", "3", "4", "5", "6", "7", "8", "9">>

\* String.prototype.trim, front half.
RECURSIVE TrimStart(_)
TrimStart(s) ==
    IF s = <<>> THEN s
    ELSE IF Head(s) \in WhiteSpace THEN TrimStart(Tail(s)) ELSE s

\* String.prototype.trim, back half.
RECURSIVE TrimEnd(_)
TrimEnd(s) ==
    IF s = <<>> THEN s
    ELSE IF s[Len(s)] \in WhiteSpace THEN TrimEnd(SubSeq(s, 1, Len(s) - 1)) ELSE s

Trim(s) == TrimEnd(TrimStart(s))

\* A value of type string | number.
Str(s) == [t |-> "string", s |-> s, n |-> 0, nan |-> FALSE]

Num(n) == [t |-> "number", s |-> <<>>, n |-> n, nan |-> FALSE]

NaN == [t |-> "number", s |-> <<>>, n |-> 0, nan |-> TRUE]

TypeOf(v) == v.t

IsDigit(c) == \E d \in 1..10 : DigitChars[d] = c

DigitValue(c) == (CHOOSE d \in 1..10 : DigitChars[d] = c) - 1

\* The value of a sequence of decimal digits.
RECURSIVE DecimalValue(_)
DecimalValue(s) ==
    IF s = <<>> THEN 0
    ELSE 10 * DecimalValue(SubSeq(s, 1, Len(s) - 1)) + DigitValue(s[Len(s)])

\* Unary plus on a string (ToNumber): surrounding white space is dropped, the
\* empty string is 0, an optionally signed run of decimal digits is its value,
\* and any other text over the alphabet used here is NaN.
StringToNumber(s) ==
    LET t == Trim(s)
        signed == t /= <<>> /\ Head(t) \in {"+", "-"}
        digits == IF signed THEN Tail(t) ELSE t
    IN  IF t = <<>> THEN Num(0)
        ELSE IF digits /= <<>> /\ \A k \in 1..Len(digits) : IsDigit(digits[k])
             THEN IF signed /\ Head(t) = "-"
                  THEN Num(0 - DecimalValue(digits))
                  ELSE Num(DecimalValue(digits))
             ELSE NaN

\* The decimal digits of a natural number.
RECURSIVE NatToString(_)
NatToString(n) ==
    IF n < 10 THEN <<DigitChars[n + 1]>>
    ELSE NatToString(n \div 10) \o <<DigitChars[(n % 10) + 1]>>

\* value.toString() of a string | number.
ToString(v) ==
    IF TypeOf(v) = "string" THEN v.s
    ELSE IF v.nan THEN <<"N", "a", "N">>
    ELSE IF v.n < 0 THEN <<"-">> \o NatToString(0 - v.n)
    ELSE NatToString(v.n)

\* number >= number and number <= number; false when the left side is NaN.
GreaterEq(v, bound) == ~v.nan /\ v.n >= bound

LessEq(v, bound) == ~v.nan /\ v.n <= bound

(***************************************************************************)
(* Validation.  An optional property of a Validatable is <<>> when absent  *)
(* and <<x>> when set to x.                                                *)
(***************************************************************************)
Absent == <<>>

Validatable(value, required, minLength, maxLength, min, max) ==
    [value |-> value, required |-> required, minLength |-> minLength,
     maxLength |-> maxLength, min |-> min, max |-> max]

\* required is tested for truthiness: absent and false both skip the check.
Truthy(opt) == opt /= Absent /\ opt[1]

\* x != null
NotNull(opt) == opt /= Absent

\* validate with min tested for truthiness, so that a min of 0 is skipped.
validateTruthyMin(validatableInput) ==
    LET value == validatableInput.value
        isValid1 ==
            IF Truthy(validatableInput.required)
            THEN Len(Trim(ToString(value))) /= 0
            ELSE TRUE
        isValid2 ==
            IF NotNull(validatableInput.minLength) /\ TypeOf(value) = "string"
            THEN isValid1 /\ Len(value.s) >= validatableInput.minLength[1]
            ELSE isValid1
        isValid3 ==
            IF NotNull(validatableInput.maxLength) /\ TypeOf(value) = "string"
            THEN isValid2 /\ Len(value.s) <= validatableInput.maxLength[1]
            ELSE isValid2
        isValid4 ==
            IF NotNull(validatableInput.min) /\ validatableInput.min[1] /= 0
               /\ TypeOf(value) = "number"
            THEN isValid3 /\ GreaterEq(value, validatableInput.min[1])
            ELSE isValid3
        isValid5 ==
            IF NotNull(validatableInput.max) /\ TypeOf(value) = "number"
            THEN isValid4 /\ LessEq(value, validatableInput.max[1])
            ELSE isValid4
    IN  isValid5

validate(validatableInput) ==
    LET value == validatableInput.value
        isValid0 == TRUE
        isValid1 ==
            IF Truthy(validatableInput.required)
            THEN isValid0 /\ Len(Trim(ToString(value))) /= 0
            ELSE isValid0
        isValid2 ==
            IF NotNull(validatableInput.minLength) /\ TypeOf(value) = "string"
            THEN isValid1 /\ Len(value.s) >= validatableInput.minLength[1]
            ELSE isValid1
        isValid3 ==
            IF NotNull(validatableInput.maxLength) /\ TypeOf(value) = "string"
            THEN isValid2 /\ Len(value.s) <= validatableInput.maxLength[1]
            ELSE isValid2
        isValid4 ==
            IF NotNull(validatableInput.min) /\ TypeOf(value) = "number"
            THEN isValid3 /\ GreaterEq(value, validatableInput.min[1])
            ELSE isValid3
        isValid5 ==
            IF NotNull(validatableInput.max) /\ TypeOf(value) = "number"
            THEN isValid4 /\ LessEq(value, validatableInput.max[1])
            ELSE isValid4
    IN  isValid5

(***************************************************************************)
(* The data the model draws its inputs from.                               *)
(***************************************************************************)
Active == "Active"

Finished == "Finished"

ProjectStatus == {Active, Finished}

ListTypes == {"active", "finished"}

\* Values Math.random().toString() can return.  Nothing in the code keeps
\* two calls from returning the same one.
RandomIds == {"0.25", "0.75"}

TextShip == <<"S", "h", "i", "p">>

TextGo == <<"G", "o">>

TextAbcde == <<"a", "b", "c", "d", "e">>

TextAbcd == <<"a", "b", "c", "d">>

TextPadded == <<" ", "a", "b", "c", " ">>

TextBlanks == <<" ", " ", " ", " ", " ">>

\* What the user can type into the three fields before submitting: two
\* entries that pass validation and one that does not.
BoardEntries ==
    { <<TextShip, TextAbcde, <<"3">> >>,
      <<TextGo, TextPadded, <<"1">> >>,
      <<<<" ">>, TextAbcde, <<"3">> >> }

\* The same and entries that fail on each of the other constraints.
FormEntries ==
    BoardEntries \cup
    { <<TextShip, <<>>, <<"3">> >>,
      <<TextShip, TextAbcd, <<"3">> >>,
      <<TextShip, TextBlanks, <<"3">> >>,
      <<TextShip, TextAbcde, <<"6">> >>,
      <<TextShip, TextAbcde, <<"x">> >>,
      <<TextShip, TextAbcde, <<>> >> }

AlertText == "Invalid input, please try again!"

\* No drag is in progress.
NoDrag == [active |-> FALSE, types |-> <<>>, text |-> "", effectAllowed |-> "none"]

\* Drags that begin outside the board: a piece of selected text, a file.
ExternalDrags ==
    { [active |-> TRUE, types |-> <<"text/plain">>, text |-> "hello",
       effectAllowed |-> "uninitialized"],
      [active |-> TRUE, types |-> <<"Files">>, text |-> "",
       effectAllowed |-> "uninitialized"] }

\* The callbacks handed to addListener.  The two lists register their own
\* closure; a probe only looks at the array it is given and then removes
\* that array's last entry by pop(); an element writer assigns to a field of the first
\* element it is given.
ListListener(type) == [kind |-> "list", type |-> type]

Probe == [kind |-> "probe", type |-> "none"]

ElementWriter == [kind |-> "elementWriter", type |-> "none"]

(***************************************************************************)
(* State.                                                                  *)
(***************************************************************************)
VARIABLES
    heap,              \* the Project objects; heap[r] is the object with reference r
    projects,          \* ProjectState.projects: an array of references
    listeners,         \* State.listeners
    assignedProjects,  \* ProjectList.assignedProjects, per list
    listItems,         \* the ProjectItem elements under each list's <ul>
    droppable,         \* whether each list's <ul> carries the class "droppable"
    titleValue,        \* titleInputElement.value
    descriptionValue,  \* descriptionInputElement.value
    peopleValue,       \* peopleInputElement.value
    dataTransfer,      \* the drag in progress, NoDrag when there is none
    calls,             \* the listener invocations of the latest step, in order
    alerts,            \* the alerts raised by the latest step
    lastEvent,         \* the latest step: the event handled and the list it was fired at
    vInput,            \* validate: the argument
    vReturned,         \* validate: whether the call has returned
    vResult            \* validate: the value returned

appVars ==
    <<heap, projects, listeners, assignedProjects, listItems, droppable,
      titleValue, descriptionValue, peopleValue, dataTransfer, calls, alerts,
      lastEvent>>

validateVars == <<vInput, vReturned, vResult>>

vars == <<appVars, validateVars>>

(***************************************************************************)
(* Project and ProjectItem.                                                *)
(***************************************************************************)
Project(id, title, description, people, status) ==
    [id |-> id, title |-> title, description |-> description,
     people |-> people, status |-> status]

\* ProjectItem.persons
persons(project) ==
    IF project.people = 1
    THEN <<"1", " ", "p", "e", "r", "s", "o", "n">>
    ELSE NatToString(project.people) \o <<" ", "p", "e", "o", "p", "l", "e">>

\* new ProjectItem(hostId, project): the <li> it attaches, with the element
\* id and the three texts renderContent writes, and the object it keeps.
ProjectItem(h, ref) ==
    [id |-> h[ref].id,
     h2 |-> h[ref].title,
     h3 |-> persons(h[ref]) \o <<" ", "a", "s", "s", "i", "g", "n", "e", "d">>,
     p |-> h[ref].description,
     project |-> ref]

(***************************************************************************)
(* ProjectState.  The operations work on a record st of everything a       *)
(* notification can touch: the heap, the arrays (the store's own, named    *)
(* "store", and the latest slice, named "snapshot"), the lists' state and  *)
(* the invocations made.                                                   *)
(***************************************************************************)
\* The values of the objects an array refers to, in order.
Values(h, arr) == [k \in 1..Len(arr) |-> h[arr[k]]]

\* this.projects.slice(): a new array holding the same references.  The
\* result names the array handed to the listener.
slice(st) == [st EXCEPT !.arrays["snapshot"] = st.arrays["store"]]

\* The store's own array handed out in place of the slice.
shared == "store"

sliced == "snapshot"

\* renderProjects without the emptying of the <ul>.
renderProjectsAppending(st, type) ==
    [st EXCEPT !.items[type] =
        @ \o [k \in 1..Len(st.assigned[type]) |-> ProjectItem(st.heap, st.assigned[type][k])]]

\* ProjectList.renderProjects: empty the <ul>, then one ProjectItem per
\* assigned project.
renderProjects(st, type) ==
    [st EXCEPT !.items[type] =
        [k \in 1..Len(st.assigned[type]) |-> ProjectItem(st.heap, st.assigned[type][k])]]

\* The closure ProjectList.configure registers.
ListCallback(st, type, arr) ==
    LET Relevant(ref) ==
            IF type = "active"
            THEN st.heap[ref].status = Active
            ELSE st.heap[ref].status = Finished
        relevantProjects == SelectSeq(st.arrays[arr], Relevant)
    IN  renderProjects([st EXCEPT !.assigned[type] = relevantProjects], type)

\* items.pop() on the array received.
ProbeCallback(st, arr) ==
    LET a == st.arrays[arr]
    IN  IF a = <<>> THEN st
        ELSE [st EXCEPT !.arrays[arr] = SubSeq(a, 1, Len(a) - 1)]

\* items[0].status = Finished on the array received.
ElementWriterCallback(st, arr) ==
    LET a == st.arrays[arr]
    IN  IF a = <<>> THEN st
        ELSE [st EXCEPT !.heap[a[1]].status = Finished]

\* listenerFunction(items): the invocation is recorded with the values the
\* callback finds in the array on entry, then the callback runs.
Invoke(st, i, arr) ==
    LET l == listeners[i]
        entered == [st EXCEPT !.calls =
                       Append(@, [listener |-> i, items |-> Values(st.heap, st.arrays[arr])])]
    IN  IF l.kind = "list" THEN ListCallback(entered, l.type, arr)
        ELSE IF l.kind = "probe" THEN ProbeCallback(entered, arr)
        ELSE ElementWriterCallback(entered, arr)

\* The loop of updateListeners over listeners 1..n.
RECURSIVE NotifyUpTo(_, _)
NotifyUpTo(st, n) ==
    IF n = 0 THEN st
    ELSE Invoke(slice(NotifyUpTo(st, n - 1)), n, sliced)

updateListeners(st) == NotifyUpTo(st, Len(listeners))

\* addProject with unshift in place of push.
addProjectUnshift(st, id, title, description, numberOfPeople) ==
    LET newProject == Project(id, title, description, numberOfPeople, Active)
        ref == Len(st.heap) + 1
        pushed == [st EXCEPT !.heap = Append(@, newProject),
                             !.arrays["store"] = <<ref>> \o @]
    IN  updateListeners(pushed)

addProject(st, id, title, description, numberOfPeople) ==
    LET newProject == Project(id, title, description, numberOfPeople, Active)
        ref == Len(st.heap) + 1
        pushed == [st EXCEPT !.heap = Append(@, newProject),
                             !.arrays["store"] = Append(@, ref)]
    IN  updateListeners(pushed)

\* this.projects.find(project => project.id === projectId): the index of the
\* first match, 0 for undefined.
find(st, projectId) ==
    LET a == st.arrays["store"]
        hits == {k \in 1..Len(a) : st.heap[a[k]].id = projectId}
    IN  IF hits = {} THEN 0 ELSE CHOOSE k \in hits : \A j \in hits : k <= j

\* moveProject without the comparison of the two statuses.
moveProjectAlways(st, projectId, newStatus) ==
    LET k == find(st, projectId)
        ref == st.arrays["store"][k]
    IN  IF k /= 0
        THEN updateListeners([st EXCEPT !.heap[ref].status = newStatus])
        ELSE st

\* moveProject that also moves the project to the end of the array.
moveProjectToEnd(st, projectId, newStatus) ==
    LET k == find(st, projectId)
        a == st.arrays["store"]
        ref == a[k]
    IN  IF k /= 0 /\ st.heap[ref].status /= newStatus
        THEN updateListeners(
                 [st EXCEPT !.heap[ref].status = newStatus,
                            !.arrays["store"] =
                                SubSeq(a, 1, k - 1) \o SubSeq(a, k + 1, Len(a)) \o <<ref>>])
        ELSE st

moveProject(st, projectId, newStatus) ==
    LET k == find(st, projectId)
        ref == st.arrays["store"][k]
    IN  IF k /= 0 /\ st.heap[ref].status /= newStatus
        THEN updateListeners([st EXCEPT !.heap[ref].status = newStatus])
        ELSE st

\* The state a handler starts from, and the variables it leaves behind.
Current ==
    [heap |-> heap,
     arrays |-> [a \in {"store", "snapshot"} |-> IF a = "store" THEN projects ELSE <<>>],
     assigned |-> assignedProjects,
     items |-> listItems,
     calls |-> <<>>]

Commit(st) ==
    /\ heap' = st.heap
    /\ projects' = st.arrays["store"]
    /\ assignedProjects' = st.assigned
    /\ listItems' = st.items
    /\ calls' = st.calls

Event(name, target) == [name |-> name, target |-> target]

(***************************************************************************)
(* ProjectInput.                                                           *)
(***************************************************************************)
\* gatherUserInput with the three checks joined by && in place of ||.
gatherUserInputAllFail ==
    LET titleValidatable ==
            Validatable(Str(titleValue), <<TRUE>>, Absent, Absent, Absent, Absent)
        descriptionValidatable ==
            Validatable(Str(descriptionValue), <<TRUE>>, <<5>>, Absent, Absent, Absent)
        peopleValidatable ==
            Validatable(StringToNumber(peopleValue), <<TRUE>>, Absent, Absent, <<1>>, <<5>>)
    IN  IF ~validate(titleValidatable) /\ ~validate(descriptionValidatable)
           /\ ~validate(peopleValidatable)
        THEN [isArray |-> FALSE, alerts |-> <<AlertText>>,
              title |-> <<>>, description |-> <<>>, people |-> 0]
        ELSE [isArray |-> TRUE, alerts |-> <<>>,
              title |-> titleValue, description |-> descriptionValue,
              people |-> StringToNumber(peopleValue).n]

\* gatherUserInput: the tuple returned, or the alert raised and nothing.
gatherUserInput ==
    LET enteredTitle == titleValue
        enteredDescription == descriptionValue
        enteredPeople == peopleValue
        titleValidatable ==
            Validatable(Str(enteredTitle), <<TRUE>>, Absent, Absent, Absent, Absent)
        descriptionValidatable ==
            Validatable(Str(enteredDescription), <<TRUE>>, <<5>>, Absent, Absent, Absent)
        peopleValidatable ==
            Validatable(StringToNumber(enteredPeople), <<TRUE>>, Absent, Absent, <<1>>, <<5>>)
    IN  IF ~validate(titleValidatable) \/ ~validate(descriptionValidatable)
           \/ ~validate(peopleValidatable)
        THEN [isArray |-> FALSE, alerts |-> <<AlertText>>,
              title |-> <<>>, description |-> <<>>, people |-> 0]
        ELSE [isArray |-> TRUE, alerts |-> <<>>,
              title |-> enteredTitle, description |-> enteredDescription,
              people |-> StringToNumber(enteredPeople).n]

\* The user types an entry into the three fields.  Keyboard input is
\* suppressed while a drag is in progress.
EnterInput(entry) ==
    /\ ~dataTransfer.active
    /\ lastEvent' = Event("input", "none")
    /\ titleValue' = entry[1]
    /\ descriptionValue' = entry[2]
    /\ peopleValue' = entry[3]
    /\ calls' = <<>>
    /\ alerts' = <<>>
    /\ UNCHANGED <<heap, projects, listeners, assignedProjects, listItems,
                   droppable, dataTransfer, validateVars>>

\* submitHandler, with the value Math.random() returns inside addProject.
SubmitHandler(random) ==
    LET userInput == gatherUserInput
    IN  /\ ~dataTransfer.active
        /\ userInput.isArray => Len(projects) < MaxProjects
        /\ lastEvent' = Event("submit", "none")
        /\ alerts' = userInput.alerts
        /\ IF userInput.isArray
           THEN /\ Commit(addProject(Current, random, userInput.title,
                                     userInput.description, userInput.people))
                \* clearInputs
                /\ titleValue' = <<>>
                /\ descriptionValue' = <<>>
                /\ peopleValue' = <<>>
           ELSE /\ Commit(Current)
                /\ UNCHANGED <<titleValue, descriptionValue, peopleValue>>
        /\ UNCHANGED <<listeners, droppable, dataTransfer, validateVars>>

(***************************************************************************)
(* Drag and drop.                                                          *)
(***************************************************************************)
\* ProjectItem.dragStartHandler on the k-th item of a list.
DragStartHandler(type, k) ==
    /\ ~dataTransfer.active
    /\ lastEvent' = Event("dragstart", type)
    /\ k \in 1..Len(listItems[type])
    /\ dataTransfer' = [active |-> TRUE, types |-> <<"text/plain">>,
                        text |-> heap[listItems[type][k].project].id,
                        effectAllowed |-> "move"]
    /\ calls' = <<>>
    /\ alerts' = <<>>
    /\ UNCHANGED <<heap, projects, listeners, assignedProjects, listItems, droppable,
                   titleValue, descriptionValue, peopleValue, validateVars>>

\* A drag that starts outside the board enters the page.
ExternalDragStart(drag) ==
    /\ ~dataTransfer.active
    /\ lastEvent' = Event("dragenter", "none")
    /\ dataTransfer' = drag
    /\ calls' = <<>>
    /\ alerts' = <<>>
    /\ UNCHANGED <<heap, projects, listeners, assignedProjects, listItems, droppable,
                   titleValue, descriptionValue, peopleValue, validateVars>>

\* dragOverHandler without the test of the payload type.
DragOverHandlerAnyType(type) ==
    /\ dataTransfer.active
    /\ lastEvent' = Event("dragover", type)
    /\ droppable' = [droppable EXCEPT ![type] = TRUE]
    /\ calls' = <<>>
    /\ alerts' = <<>>
    /\ UNCHANGED <<heap, projects, listeners, assignedProjects, listItems, dataTransfer,
                   titleValue, descriptionValue, peopleValue, validateVars>>

\* ProjectList.dragOverHandler
DragOverHandler(type) ==
    /\ dataTransfer.active
    /\ lastEvent' = Event("dragover", type)
    /\ IF dataTransfer.types /= <<>> /\ dataTransfer.types[1] = "text/plain"
       THEN droppable' = [droppable EXCEPT ![type] = TRUE]
       ELSE droppable' = droppable
    /\ calls' = <<>>
    /\ alerts' = <<>>
    /\ UNCHANGED <<heap, projects, listeners, assignedProjects, listItems, dataTransfer,
                   titleValue, descriptionValue, peopleValue, validateVars>>

\* ProjectList.dropHandler
DropHandler(type) ==
    /\ dataTransfer.active
    /\ lastEvent' = Event("drop", type)
    /\ LET projectId == dataTransfer.text
       IN  Commit(moveProject(Current, projectId,
                              IF type = "active" THEN Active ELSE Finished))
    /\ alerts' = <<>>
    /\ UNCHANGED <<listeners, droppable, dataTransfer,
                   titleValue, descriptionValue, peopleValue, validateVars>>

\* ProjectList.dragLeaveHandler
DragLeaveHandler(type) ==
    /\ dataTransfer.active
    /\ lastEvent' = Event("dragleave", type)
    /\ droppable' = [droppable EXCEPT ![type] = FALSE]
    /\ calls' = <<>>
    /\ alerts' = <<>>
    /\ UNCHANGED <<heap, projects, listeners, assignedProjects, listItems, dataTransfer,
                   titleValue, descriptionValue, peopleValue, validateVars>>

\* The drag ends; ProjectItem.dragEndHandler only logs.
DragEndHandler ==
    /\ dataTransfer.active
    /\ lastEvent' = Event("dragend", "none")
    /\ dataTransfer' = NoDrag
    /\ calls' = <<>>
    /\ alerts' = <<>>
    /\ UNCHANGED <<heap, projects, listeners, assignedProjects, listItems, droppable,
                   titleValue, descriptionValue, peopleValue, validateVars>>

(***************************************************************************)
(* State.addListener, called by code other than the two lists.             *)
(***************************************************************************)
addListener(listenerFunction) ==
    /\ Len(listeners) < 2 + MaxExtraListeners
    /\ lastEvent' = Event("addListener", "none")
    /\ listeners' = Append(listeners, listenerFunction)
    /\ calls' = <<>>
    /\ alerts' = <<>>
    /\ UNCHANGED <<heap, projects, assignedProjects, listItems, droppable, dataTransfer,
                   titleValue, descriptionValue, peopleValue, validateVars>>

AddProbe == addListener(Probe)

AddElementWriter == addListener(ElementWriter)

(***************************************************************************)
(* The board after the three constructors at the end of app.ts have run.   *)
(***************************************************************************)
NoValidatable == Validatable(Str(<<>>), Absent, Absent, Absent, Absent, Absent)

InitApp ==
    /\ heap = <<>>
    /\ projects = <<>>
    /\ listeners = <<ListListener("active"), ListListener("finished")>>
    /\ assignedProjects = [type \in ListTypes |-> <<>>]
    /\ listItems = [type \in ListTypes |-> <<>>]
    /\ droppable = [type \in ListTypes |-> FALSE]
    /\ titleValue = <<>>
    /\ descriptionValue = <<>>
    /\ peopleValue = <<>>
    /\ dataTransfer = NoDrag
    /\ calls = <<>>
    /\ alerts = <<>>
    /\ lastEvent = Event("init", "none")

Init ==
    /\ InitApp
    /\ vInput = NoValidatable
    /\ vReturned = FALSE
    /\ vResult = FALSE

Next ==
    \/ \E entry \in BoardEntries : EnterInput(entry)
    \/ \E random \in RandomIds : SubmitHandler(random)
    \/ \E type \in ListTypes, k \in 1..MaxProjects : DragStartHandler(type, k)
    \/ \E drag \in ExternalDrags : ExternalDragStart(drag)
    \/ \E type \in ListTypes : DragOverHandler(type)
    \/ \E type \in ListTypes : DropHandler(type)
    \/ \E type \in ListTypes : DragLeaveHandler(type)
    \/ DragEndHandler
    \/ AddProbe

\* The board as wired, with probes as the only other listeners.
Spec == Init /\ [][Next]_vars

NextAnyListener ==
    \/ Next
    \/ AddElementWriter

\* The same with listeners that also write to the objects they are given.
SpecAnyListener == Init /\ [][NextAnyListener]_vars

NextForm ==
    \/ \E entry \in FormEntries : EnterInput(entry)
    \/ \E random \in RandomIds : SubmitHandler(random)

\* The form alone, with every kind of entry.
SpecForm == Init /\ [][NextForm]_vars

(***************************************************************************)
(* validate on its own, applied to an argument drawn from a bounded set.   *)
(***************************************************************************)
ValidateValues ==
    { Str(<<>>), Str(<<" ">>), Str(TextAbcd), Str(TextAbcde), Str(TextPadded),
      Str(TextBlanks), Str(TextAbcde \o <<"f">>),
      Num(0 - 1), Num(0), Num(1), Num(4), Num(5), Num(6), NaN }

ValidatableInputs ==
    { Validatable(value, required, minLength, maxLength, min, max) :
        value \in ValidateValues,
        required \in {Absent, <<TRUE>>, <<FALSE>>},
        minLength \in {Absent, <<0>>, <<5>>},
        maxLength \in {Absent, <<5>>},
        min \in {Absent, <<0>>, <<1>>},
        max \in {Absent, <<5>>} }

InitValidate ==
    /\ InitApp
    /\ vInput \in ValidatableInputs
    /\ vReturned = FALSE
    /\ vResult = FALSE

ValidateCall ==
    /\ ~vReturned
    /\ vReturned' = TRUE
    /\ vResult' = validate(vInput)
    /\ UNCHANGED <<appVars, vInput>>

NextValidate == ValidateCall

SpecValidate == InitValidate /\ [][NextValidate]_vars

(***************************************************************************)
(* Properties.                                                             *)
(***************************************************************************)
\* The stored projects, in store order.
StoreValues == Values(heap, projects)

StatusOf(type) == IF type = "active" THEN Active ELSE Finished

\* The positions of the stored projects with a given id.
Matching(id) == {k \in 1..Len(projects) : heap[projects[k]].id = id}

\* The first such position.
FirstMatching(id) == CHOOSE k \in Matching(id) : \A j \in Matching(id) : k <= j

\* C1: a submission that reaches addProject makes the store one project
\* longer; the new project is the last entry, is Active and carries the
\* title, description and people count passed in; every project stored
\* before keeps its position and all of its fields.
C1_AddProjectAppends ==
    [][(lastEvent'.name = "submit" /\ alerts' = <<>>) =>
          LET n == Len(projects)
              added == heap'[projects'[n + 1]]
          IN  /\ Len(projects') = n + 1
              /\ added.status = Active
              /\ added.title = titleValue
              /\ added.description = descriptionValue
              /\ Num(added.people) = StringToNumber(peopleValue)
              /\ \A k \in 1..n :
                    /\ projects'[k] = projects[k]
                    /\ heap'[projects'[k]] = heap[projects[k]]]_vars

\* addProject has just appended a second project behind one that was moved
\* to Finished before.
C1_Witness ==
    /\ lastEvent.name = "submit"
    /\ alerts = <<>>
    /\ Len(projects) = 2
    /\ heap[projects[1]].status = Finished
    /\ heap[projects[2]] = Project(heap[projects[2]].id, TextGo, TextPadded, 1, Active)

\* C2: no two stored projects have the same id.
C2_IdsDistinct ==
    \A i, j \in 1..Len(projects) :
        i /= j => heap[projects[i]].id /= heap[projects[j]].id

\* C3: a drop whose moveProject finds no project with the dragged id, or
\* finds one that already has the list's status, invokes no listener and
\* leaves the store, every project and both lists as they were.
C3_MoveNoOp ==
    [][\A type \in ListTypes :
          (/\ lastEvent' = Event("drop", type)
           /\ \/ Matching(dataTransfer.text) = {}
              \/ heap[projects[FirstMatching(dataTransfer.text)]].status = StatusOf(type))
          => /\ calls' = <<>>
             /\ alerts' = <<>>
             /\ heap' = heap
             /\ projects' = projects
             /\ assignedProjects' = assignedProjects
             /\ listItems' = listItems]_vars

\* A project was dropped on the list it is already in, with a second project
\* in the store.
C3_Witness ==
    /\ lastEvent = Event("drop", "finished")
    /\ Matching(dataTransfer.text) /= {}
    /\ heap[projects[FirstMatching(dataTransfer.text)]].status = Finished
    /\ calls = <<>>
    /\ Len(projects) = 2

\* C4: a drop whose moveProject finds a project with another status changes
\* the status of that one project and nothing else in the store; and no step
\* removes, reorders or re-identifies a stored project.
C4_MoveChangesOneStatus ==
    [][/\ \A type \in ListTypes :
             (/\ lastEvent' = Event("drop", type)
              /\ Matching(dataTransfer.text) /= {}
              /\ heap[projects[FirstMatching(dataTransfer.text)]].status /= StatusOf(type))
             => /\ projects' = projects
                /\ heap' = [heap EXCEPT
                              ![projects[FirstMatching(dataTransfer.text)]].status =
                                  StatusOf(type)]
       /\ Len(projects') >= Len(projects)
       /\ \A k \in 1..Len(projects) :
             /\ projects'[k] = projects[k]
             /\ heap'[projects'[k]].id = heap[projects[k]].id]_vars

\* The second of two projects with different ids was just moved to Finished.
C4_Witness ==
    /\ lastEvent = Event("drop", "finished")
    /\ calls /= <<>>
    /\ Len(projects) = 2
    /\ heap[projects[1]].status = Active
    /\ heap[projects[2]].status = Finished
    /\ heap[projects[1]].id /= heap[projects[2]].id
    /\ dataTransfer.text = heap[projects[2]].id

\* C5: a step that changes the store invokes every registered listener once
\* per registration, in registration order, each with the whole store as it
\* then is; addListener invokes nothing and leaves the store alone.
C5_NotifyEachInOrder ==
    [][/\ (heap' /= heap \/ projects' /= projects) =>
             calls' = [i \in 1..Len(listeners) |->
                          [listener |-> i, items |-> Values(heap', projects')]]
       /\ listeners' /= listeners =>
             /\ calls' = <<>>
             /\ heap' = heap
             /\ projects' = projects
             /\ \E fn \in {Probe, ElementWriter} : listeners' = Append(listeners, fn)]_vars

\* One callback is registered twice and the latest step invoked all four
\* listeners on a store of two projects.
C5_Witness ==
    /\ Len(listeners) = 4
    /\ listeners[3] = listeners[4]
    /\ Len(calls) = 4
    /\ calls[3].items = calls[4].items
    /\ Len(calls[4].items) = 2

\* C6: what a listener does to what it received shows neither in the store
\* nor in what any other listener of the notification received: after a
\* notification the store still holds what every listener was handed.
C6_SnapshotIsolation ==
    \A i \in 1..Len(calls) : calls[i].items = StoreValues

\* C7: each list is assigned, and shows, exactly the stored projects of its
\* status, in store order; every stored project is in exactly one list.
C7_ListsPartitionStore ==
    /\ \A type \in ListTypes :
          LET Mine(ref) == heap[ref].status = StatusOf(type)
              mine == SelectSeq(projects, Mine)
          IN  /\ assignedProjects[type] = mine
              /\ Len(listItems[type]) = Len(mine)
              /\ \A k \in 1..Len(mine) :
                    /\ listItems[type][k].project = mine[k]
                    /\ listItems[type][k].id = heap[mine[k]].id
                    /\ listItems[type][k].h2 = heap[mine[k]].title
                    /\ listItems[type][k].p = heap[mine[k]].description
    /\ \A k \in 1..Len(projects) :
          Cardinality({<<type, n>> \in ListTypes \X (1..MaxProjects + 1) :
                          /\ n <= Len(listItems[type])
                          /\ listItems[type][n].project = projects[k]}) = 1

\* A project was just moved to Finished: it is shown in the finished list
\* and no longer in the active one, which still shows another project.
C7_Witness ==
    /\ lastEvent = Event("drop", "finished")
    /\ calls /= <<>>
    /\ Len(listItems["active"]) = 1
    /\ Len(listItems["finished"]) = 1
    /\ listItems["finished"][1].id = dataTransfer.text
    /\ listItems["active"][1].h3 =
          <<"1", " ", "p", "e", "r", "s", "o", "n", " ", "a", "s", "s", "i", "g", "n", "e", "d">>

\* The three constraints of the form, as the claim states them.
TitleOk(s) == Trim(s) /= <<>>

DescriptionOk(s) == Trim(s) /= <<>> /\ Len(s) >= 5

PeopleOk(s) ==
    /\ ~StringToNumber(s).nan
    /\ StringToNumber(s).n >= 1
    /\ StringToNumber(s).n <= 5

\* C8: a submission with a field that fails its constraint raises the alert,
\* leaves the store and the three fields as they were and invokes no
\* listener; any other submission raises no alert, adds one project with the
\* entered title and description and the number entered for people, and
\* empties the three fields.
C8_SubmitValidates ==
    [][lastEvent'.name = "submit" =>
          IF TitleOk(titleValue) /\ DescriptionOk(descriptionValue) /\ PeopleOk(peopleValue)
          THEN /\ alerts' = <<>>
               /\ Len(projects') = Len(projects) + 1
               /\ Len(heap') = Len(heap) + 1
               /\ heap'[projects'[Len(projects')]].title = titleValue
               /\ heap'[projects'[Len(projects')]].description = descriptionValue
               /\ Num(heap'[projects'[Len(projects')]].people) = StringToNumber(peopleValue)
               /\ Len(calls') = Len(listeners)
               /\ titleValue' = <<>>
               /\ descriptionValue' = <<>>
               /\ peopleValue' = <<>>
          ELSE /\ alerts' = <<AlertText>>
               /\ heap' = heap
               /\ projects' = projects
               /\ calls' = <<>>
               /\ titleValue' = titleValue
               /\ descriptionValue' = descriptionValue
               /\ peopleValue' = peopleValue]_vars

\* After one accepted submission, a description of five blanks was refused:
\* the alert is up and the fields still hold the entry.
C8_Witness ==
    /\ lastEvent.name = "submit"
    /\ alerts = <<AlertText>>
    /\ descriptionValue = TextBlanks
    /\ titleValue = TextShip
    /\ peopleValue = <<"3">>
    /\ Len(projects) = 1

\* What validate is to return, constraint by constraint.
RequiredHolds(v) == Truthy(v.required) => Trim(ToString(v.value)) /= <<>>

MinLengthHolds(v) ==
    (v.minLength /= Absent /\ v.value.t = "string") => Len(v.value.s) >= v.minLength[1]

MaxLengthHolds(v) ==
    (v.maxLength /= Absent /\ v.value.t = "string") => Len(v.value.s) <= v.maxLength[1]

MinHolds(v) ==
    (v.min /= Absent /\ v.value.t = "number") => (~v.value.nan /\ v.value.n >= v.min[1])

MaxHolds(v) ==
    (v.max /= Absent /\ v.value.t = "number") => (~v.value.nan /\ v.value.n <= v.max[1])

Only(value, required, minLength, maxLength, min, max) ==
    vInput = Validatable(value, required, minLength, maxLength, min, max)

\* C9: validate returns true exactly when every constraint that is set and
\* applies to the value's type holds; and on the five inputs the claim lists
\* it returns false, true, true, false and true.
C9_ValidateIsConjunction ==
    vReturned =>
        /\ vResult = (/\ RequiredHolds(vInput)
                      /\ MinLengthHolds(vInput)
                      /\ MaxLengthHolds(vInput)
                      /\ MinHolds(vInput)
                      /\ MaxHolds(vInput))
        /\ Only(Str(<<>>), <<TRUE>>, Absent, Absent, Absent, Absent) => ~vResult
        /\ Only(Str(TextAbcde), Absent, <<5>>, Absent, Absent, Absent) => vResult
        /\ Only(Num(4), Absent, Absent, Absent, <<1>>, <<5>>) => vResult
        /\ Only(Num(6), Absent, Absent, Absent, Absent, <<5>>) => ~vResult
        /\ Only(Num(0), <<TRUE>>, Absent, Absent, Absent, Absent) => vResult

\* validate has returned true for the number 0 with required alone.
C9_Witness ==
    /\ vReturned
    /\ Only(Num(0), <<TRUE>>, Absent, Absent, Absent, Absent)
    /\ vResult

\* C10: a list's mark goes up only in a drag-over of that list whose first
\* payload type is text/plain and comes down only in a drag-leave of that
\* list; a drop, with the re-rendering it causes, leaves every mark alone.
C10_MarkSetAndCleared ==
    [][/\ \A type \in ListTypes :
             /\ (~droppable[type] /\ droppable'[type]) =>
                   /\ lastEvent' = Event("dragover", type)
                   /\ dataTransfer.types /= <<>>
                   /\ dataTransfer.types[1] = "text/plain"
             /\ (droppable[type] /\ ~droppable'[type]) =>
                   lastEvent' = Event("dragleave", type)
             /\ (/\ lastEvent' = Event("dragover", type)
                 /\ dataTransfer.types = <<"text/plain">>) => droppable'[type]
             /\ lastEvent' = Event("dragleave", type) => ~droppable'[type]
       /\ lastEvent'.name = "drop" => droppable' = droppable]_vars

\* A project was dropped on the finished list, which re-rendered, and the
\* list still carries the mark the drag-over gave it.
C10_Witness ==
    /\ lastEvent = Event("drop", "finished")
    /\ calls /= <<>>
    /\ Len(listItems["finished"]) = 1
    /\ droppable["finished"]
    /\ ~droppable["active"]

====
